---- MODULE Spec2Model ----
(***************************************************************************)
(* The single-agent episode loop of RLHive: SingleAgentRunner              *)
(* (hive/runners/single_agent_loop.py) driving a GymEnv                    *)
(* (hive/envs/gym_env.py).                                                 *)
(*                                                                         *)
(* Observations are vectors: a raw observation is the one-element vector   *)
(* <<o>>, a stacked observation is the concatenation of stack_size of them.*)
(* Python objects that can be aliased (the observation, the stacked        *)
(* observation, the environment's info, the transition dict and its copy)  *)
(* live in a small heap that exists for the duration of one step.          *)
(***************************************************************************)
EXTENDS Integers, Sequences, FiniteSets, TLC

\* ---------------------------------------------------------------- bounds
MaxSteps == 2          \* largest max_steps_per_episode tried
MaxStack == 2          \* largest stack_size tried
MaxPlayers == 2        \* largest num_players tried
MaxEpisodes == 2       \* run_episode calls per runner

Obs == {1, 2}                   \* components of the raw observations
Actions == {0, 1}               \* actions the agent returns from act
Infos == {<<7>>}                \* contents of the wrapped environment's info
Arities == {3, 4, 5, 6}         \* lengths of the wrapped step's result
LearningBuffers == {"fifo", "lofo", "bogus", "None"}
Mutations == {"none", "set_reward", "del_observation",
              "mutate_observation", "mutate_info"}

VARIABLES
    pc,                     \* where the driver is
    learning_buffer,        \* SingleAgentRunner._learning_buffer
    stack_size,             \* TransitionInfo._stack_size
    max_steps_per_episode,  \* Runner._max_steps_per_episode
    num_players,            \* BaseEnv._num_players
    training,               \* Runner._training
    turn,                   \* BaseEnv._turn
    buf,                    \* TransitionInfo: the agent's observation buffer
    started,                \* TransitionInfo: the agent's started flag
    transitions,            \* TransitionInfo: the last record given to record_info
    observation,            \* run_episode's local `observation`
    done,                   \* run_episode's local `done`
    steps,                  \* run_episode's local `steps`
    episode_metrics,        \* run_episode's local `episode_metrics`
    episodes,               \* run_episode calls made so far
    accepted,               \* GymEnv.step calls that returned, since construction
    history,                \* this episode's completed steps: what each was given and returned
    events,                 \* this run_episode call's calls, in the order made
    step_exc,               \* the last step: the call that raised of itself, if any
    step_action,            \* the last step: what act returned
    wrapped_result,         \* the last step: what the wrapped environment's step returned
    agent_mutated,          \* the last step: the agent changed the record it was given
    last                    \* what the last handler did (its inputs, calls, outputs)

vars == <<pc, learning_buffer, stack_size, max_steps_per_episode, num_players,
          training, turn, buf, started, transitions, observation, done, steps,
          episode_metrics, episodes, accepted, history, events, step_exc,
          step_action, wrapped_result, agent_mutated, last>>

\* ------------------------------------------------------------ the heap
\* A heap is [objs |-> address -> vector, dicts |-> address -> transition dict].
\* A transition dict holds the addresses of its observation and info and the
\* values of its reward, action and done.
Absent == "absent"      \* the address a deleted key reads as

View(h, ref) ==
    LET d == h.dicts[ref] IN
    [observation |-> IF d.observation \in DOMAIN h.objs
                       THEN h.objs[d.observation] ELSE <<>>,
     reward |-> d.reward,
     action |-> d.action,
     done |-> d.done,
     info |-> IF d.info \in DOMAIN h.objs THEN h.objs[d.info] ELSE <<>>]

\* copy.copy: a new dict that shares the objects inside it
shallowcopy(h, ref) ==
    [h EXCEPT !.dicts = ("copy" :> h.dicts[ref]) @@ h.dicts]

\* copy.deepcopy: a new dict whose observation and info are new objects
deepcopy(h, ref) ==
    LET d == h.dicts[ref] IN
    [objs |-> ("copy.observation" :> h.objs[d.observation])
              @@ ("copy.info" :> h.objs[d.info]) @@ h.objs,
     dicts |-> ("copy" :> [d EXCEPT !.observation = "copy.observation",
                                    !.info = "copy.info"]) @@ h.dicts]

\* What an agent may do in update to the record `ref` it was handed.
agent_update(h, ref, mut) ==
    LET d == h.dicts[ref] IN
    CASE mut = "set_reward" ->
           [h EXCEPT !.dicts[ref].reward = d.reward + 1]
      [] mut = "del_observation" ->
           [h EXCEPT !.dicts[ref].observation = Absent]
      [] mut = "mutate_observation" ->
           [h EXCEPT !.objs[d.observation] = [i \in DOMAIN @ |-> 0]]
      [] mut = "mutate_info" ->
           [h EXCEPT !.objs[d.info] = <<>>]
      [] OTHER -> h

\* ------------------------------------------------------ TransitionInfo
\* reset(): every per-agent buffer is cleared
TransitionInfo_reset == [buf |-> <<>>, started |-> FALSE]

\* start_agent(agent): run_episode hands it the agent and nothing else, so
\* it marks the agent started and leaves the buffer b as reset left it
start_agent(b) == [buf |-> b, started |-> TRUE]

\* get_stacked_state(agent, observation): the first observation an episode
\* hands it fills the buffer with stack_size copies; then the observation is
\* pushed, the oldest entry evicted, and the concatenation of the buffered
\* observations returned, oldest first
get_stacked_state(b, obs) ==
    LET filled == IF b = <<>> THEN [i \in 1..stack_size |-> obs[1]] ELSE b
        pushed == SubSeq(filled \o obs, 2, stack_size + 1)
    IN  [buf |-> pushed, stacked |-> pushed]

\* record_info: the record is kept as the agent's last transition
record_info(info) == info

\* ------------------------------------------------------------- GymEnv
\* A wrapped step result: arity 5 reads (observation, reward, terminated,
\* truncated, info), arity 4 reads (observation, reward, done, info).
Tuple5(o, r, terminated, truncated, i) ==
    [arity |-> 5, observation |-> o, reward |-> r, terminated |-> terminated,
     truncated |-> truncated, done |-> FALSE, info |-> i]
Tuple4(o, r, d, i) ==
    [arity |-> 4, observation |-> o, reward |-> r, terminated |-> FALSE,
     truncated |-> FALSE, done |-> d, info |-> i]
BadTuple(n) ==
    [arity |-> n, observation |-> <<1>>, reward |-> 2, terminated |-> FALSE,
     truncated |-> FALSE, done |-> FALSE, info |-> <<7>>]

\* The wrapped environment's (observation, reward) pairs.
Outcomes == {<<1, -1>>, <<2, 2>>}

StepResults ==
    {Tuple5(<<x[1]>>, x[2], te, tr, i) : x \in Outcomes, te \in BOOLEAN,
                                         tr \in BOOLEAN, i \in Infos}
    \cup {Tuple4(<<x[1]>>, x[2], d, i) : x \in Outcomes, d \in BOOLEAN, i \in Infos}
    \cup {BadTuple(n) : n \in Arities \ {4, 5}}

\* The wrapped results GymEnv.step accepts.
AcceptedResults == {sr \in StepResults : sr.arity \in {4, 5}}

\* GymEnv.step with `terminated and truncated` in place of `or`
GymEnv_step_and(step_result, t) ==
    IF step_result.arity \notin {4, 5}
      THEN [raised |-> TRUE, observation |-> <<>>, reward |-> 0, done |-> FALSE,
            turn |-> t, info |-> <<>>, self_turn |-> t]
      ELSE [raised |-> FALSE,
            observation |-> step_result.observation,
            reward |-> step_result.reward,
            done |-> IF step_result.arity = 5
                       THEN step_result.terminated /\ step_result.truncated
                       ELSE step_result.done,
            turn |-> (t + 1) % num_players,
            info |-> step_result.info,
            self_turn |-> (t + 1) % num_players]

\* GymEnv.step with the turn advanced before the result is unpacked
GymEnv_step_turn_first(step_result, t) ==
    IF step_result.arity \notin {4, 5}
      THEN [raised |-> TRUE, observation |-> <<>>, reward |-> 0, done |-> FALSE,
            turn |-> t, info |-> <<>>, self_turn |-> (t + 1) % num_players]
      ELSE [raised |-> FALSE,
            observation |-> step_result.observation,
            reward |-> step_result.reward,
            done |-> IF step_result.arity = 5
                       THEN step_result.terminated \/ step_result.truncated
                       ELSE step_result.done,
            turn |-> (t + 1) % num_players,
            info |-> step_result.info,
            self_turn |-> (t + 1) % num_players]

\* GymEnv.step with the turn advanced without the modulo
GymEnv_step_no_modulo(step_result, t) ==
    IF step_result.arity \notin {4, 5}
      THEN [raised |-> TRUE, observation |-> <<>>, reward |-> 0, done |-> FALSE,
            turn |-> t, info |-> <<>>, self_turn |-> t]
      ELSE [raised |-> FALSE,
            observation |-> step_result.observation,
            reward |-> step_result.reward,
            done |-> IF step_result.arity = 5
                       THEN step_result.terminated \/ step_result.truncated
                       ELSE step_result.done,
            turn |-> t + 1,
            info |-> step_result.info,
            self_turn |-> t + 1]

\* GymEnv.step, given the wrapped environment's result and self._turn
GymEnv_step(step_result, t) ==
    IF step_result.arity \notin {4, 5}
      THEN [raised |-> TRUE, observation |-> <<>>, reward |-> 0, done |-> FALSE,
            turn |-> t, info |-> <<>>, self_turn |-> t]
      ELSE [raised |-> FALSE,
            observation |-> step_result.observation,
            reward |-> step_result.reward,
            done |-> IF step_result.arity = 5
                       THEN step_result.terminated \/ step_result.truncated
                       ELSE step_result.done,
            turn |-> (t + 1) % num_players,
            info |-> step_result.info,
            self_turn |-> (t + 1) % num_players]


\* What one call of the wrapped environment's reset does: it returns, or it
\* raises TypeError (the old gym API does when given seed=), or it raises
\* anything else.
ResetOutcomes == {"ok", "TypeError", "RuntimeError"}

\* GymEnv.reset with `except Exception` in place of `except TypeError`
GymEnv_reset_catch_all(first, second, o, t) ==
    IF first = "ok"
      THEN [raised |-> "none", observation |-> o, turn |-> t, self_turn |-> t,
            trace |-> <<"env.reset">>]
    ELSE IF second = "ok"
      THEN [raised |-> "none", observation |-> o, turn |-> t, self_turn |-> t,
            trace |-> <<"env.reset!" \o first, "env.reset">>]
      ELSE [raised |-> second, observation |-> <<>>, turn |-> t, self_turn |-> t,
            trace |-> <<"env.reset!" \o first, "env.reset!" \o second>>]

\* GymEnv.reset with `self._turn = 0` before the wrapped reset
GymEnv_reset_zero_turn(first, second, o, t) ==
    IF first = "ok"
      THEN [raised |-> "none", observation |-> o, turn |-> 0, self_turn |-> 0,
            trace |-> <<"env.reset">>]
    ELSE IF first # "TypeError"
      THEN [raised |-> first, observation |-> <<>>, turn |-> 0, self_turn |-> 0,
            trace |-> <<"env.reset!" \o first>>]
    ELSE IF second = "ok"
      THEN [raised |-> "none", observation |-> o, turn |-> 0, self_turn |-> 0,
            trace |-> <<"env.reset!TypeError", "env.reset">>]
      ELSE [raised |-> second, observation |-> <<>>, turn |-> 0, self_turn |-> 0,
            trace |-> <<"env.reset!TypeError", "env.reset!" \o second>>]

\* GymEnv.reset(seed=None), self._seed being None as __init__ left it: the
\* wrapped reset is called with seed=seed (`first` is what that call does);
\* a TypeError of that call is caught and the wrapped reset is called again
\* without arguments (`second` is what that call does); any other exception,
\* and any exception of the second call, leaves GymEnv.reset.  self._turn is
\* read and returned, never written.
GymEnv_reset(first, second, o, t) ==
    IF first = "ok"
      THEN [raised |-> "none", observation |-> o, turn |-> t, self_turn |-> t,
            trace |-> <<"env.reset">>]
    ELSE IF first # "TypeError"
      THEN [raised |-> first, observation |-> <<>>, turn |-> t, self_turn |-> t,
            trace |-> <<"env.reset!" \o first>>]
    ELSE IF second = "ok"
      THEN [raised |-> "none", observation |-> o, turn |-> t, self_turn |-> t,
            trace |-> <<"env.reset!TypeError", "env.reset">>]
      ELSE [raised |-> second, observation |-> <<>>, turn |-> t, self_turn |-> t,
            trace |-> <<"env.reset!TypeError", "env.reset!" \o second>>]

\* ------------------------------------------------------------- Runner
\* Runner.create_episode_metrics: zeroes for the agent and for the episode
create_episode_metrics ==
    [reward |-> 0, episode_length |-> 0, full_episode_length |-> 0]

\* What the ghost variable `last` holds when the last handler was not a step.
NoStep(op) ==
    [op |-> op, raised |-> "none", observation |-> <<>>, stacked |-> <<>>,
     returned |-> <<>>, updated |-> <<>>, recorded |-> <<>>,
     reward_added |-> <<>>, trace |-> <<>>, turn_before |-> turn]

\* What update may do to its record: it is called in training, when the
\* environment's step returned.
MutationsOf(tr, sr) ==
    IF tr /\ sr.arity \in {4, 5} THEN Mutations ELSE {"none"}

\* The transition dict built after the environment step: the fifo branch puts
\* the raw observation in it, the lofo branch the stacked observation.
info_dict_raw(lb, stacked_ref, reward, action, d) ==
    [observation |-> "observation", reward |-> reward, action |-> action,
     done |-> d, info |-> "other_info"]

info_dict(lb, stacked_ref, reward, action, d) ==
    [observation |-> IF lb = "fifo" THEN "observation" ELSE stacked_ref,
     reward |-> reward,
     action |-> action,
     done |-> d,
     info |-> "other_info"]

\* After the update: the lofo branch puts the raw observation back.
restore_observation_skipped(lb, h) == h

restore_observation(lb, h) ==
    IF lb = "fifo" THEN h
    ELSE [h EXCEPT !.dicts["info"].observation = "observation"]

\* The three additions to the episode metrics at the end of a step.
add_to_metrics_agent_only(m, reward) ==
    [m EXCEPT !.reward = @ + reward, !.episode_length = @ + 1]

add_to_metrics(m, reward) ==
    [reward |-> m.reward + reward,
     episode_length |-> m.episode_length + 1,
     full_episode_length |-> m.full_episode_length + 1]

\* run_one_step makes its calls outside any try: what `call` raises (exc names
\* the call that raises of itself) leaves run_one_step.
propagates_except_update(exc, call) == exc = call /\ call # "update"

propagates(exc, call) == exc = call

\* `if self._training:` in front of both agent.update calls
calls_update_always(tr) == TRUE

calls_update(tr) == tr

\* The calls of a step that completes, in the order run_one_step makes them;
\* update is called in training only.
run_one_step_calls_record_first(tr) ==
    IF tr THEN <<"get_stacked_state", "act", "step", "record_info", "update",
                 "metrics">>
          ELSE <<"get_stacked_state", "act", "step", "record_info", "metrics">>

run_one_step_calls(tr) ==
    IF calls_update(tr) THEN <<"get_stacked_state", "act", "step", "update", "record_info",
                 "metrics">>
          ELSE <<"get_stacked_state", "act", "step", "record_info", "metrics">>

\* SingleAgentRunner.run_one_step(observation, episode_metrics) under the
\* policy lb, as a function of the runner's state and the step's inputs.
run_one_step(lb, inp) ==
    LET gs == get_stacked_state(buf, observation)
        stacked_observation == gs.stacked
        action == inp.action
        env == GymEnv_step(inp.step_result, turn)
        \* with stack_size 1 the stacked observation is the observation itself
        stacked_ref == IF stack_size = 1 THEN "observation" ELSE "stacked_observation"
        h0 == [objs |-> ("observation" :> observation)
                        @@ ("stacked_observation" :> stacked_observation)
                        @@ ("other_info" :> env.info),
               dicts |-> ("info" :> info_dict(lb, stacked_ref, env.reward,
                                              action, env.done))]
        hc == deepcopy(h0, "info")
        update_raises == calls_update(training) /\ propagates(inp.exc, "update")
        step_raises == propagates(inp.exc, "step")
        h1 == IF calls_update(training) /\ ~update_raises
                THEN agent_update(hc, "copy", inp.mut) ELSE h0
        h2 == restore_observation(lb, h1)
        info == View(h2, "info")
        returned == [observation |-> env.observation, reward |-> env.reward,
                     done |-> env.done, turn |-> env.turn, info |-> env.info]
        base == [NoStep("run_one_step") EXCEPT
                    !.observation = observation,
                    !.stacked = stacked_observation]
        unchanged == [raised |-> "none", buf |-> gs.buf, turn |-> turn,
                      accepted |-> accepted, transitions |-> transitions,
                      episode_metrics |-> episode_metrics, done |-> done,
                      next_observation |-> observation, last |-> base]
    IN
    IF propagates(inp.exc, "act") THEN
        [unchanged EXCEPT !.raised = "act",
            !.last = [base EXCEPT !.raised = "act",
                        !.trace = SubSeq(run_one_step_calls(training), 1, 2)]]
    ELSE IF step_raises \/ env.raised THEN
        [unchanged EXCEPT !.raised = IF step_raises THEN "step" ELSE "arity",
            !.turn = IF step_raises THEN turn ELSE env.self_turn,
            !.last = [base EXCEPT !.raised = IF step_raises THEN "step" ELSE "arity",
                        !.trace = SubSeq(run_one_step_calls(training), 1, 3)]]
    ELSE IF update_raises THEN
        [unchanged EXCEPT !.raised = "update",
            !.turn = env.self_turn,
            !.accepted = accepted + 1,
            !.last = [base EXCEPT !.raised = "update",
                        !.returned = <<returned>>,
                        !.updated = <<View(hc, "copy")>>,
                        !.trace = SubSeq(run_one_step_calls(training), 1, 4)]]
    ELSE
        [raised |-> "none",
         buf |-> gs.buf,
         turn |-> env.self_turn,
         accepted |-> accepted + 1,
         transitions |-> <<record_info(info)>>,
         episode_metrics |-> add_to_metrics(episode_metrics, h2.dicts["info"].reward),
         done |-> env.done,
         next_observation |-> env.observation,
         last |-> [base EXCEPT
                     !.returned = <<returned>>,
                     !.updated = IF calls_update(training)
                                   THEN <<View(hc, "copy")>> ELSE <<>>,
                     !.recorded = <<info>>,
                     !.reward_added = <<h2.dicts["info"].reward>>,
                     !.trace = run_one_step_calls(training)]]

\* The constructor's check of learning_buffer.
valid_learning_buffer_or_none(lb) == lb \in {"fifo", "lofo", "None"}

valid_learning_buffer(lb) == lb \in {"fifo", "lofo"}

\* The condition of run_episode's while loop.
loop_condition_inclusive == ~done /\ steps <= max_steps_per_episode

loop_condition_ignores_done == steps < max_steps_per_episode

loop_condition == ~done /\ steps < max_steps_per_episode

\* ------------------------------------------------------------ actions
\* The handler is not a step: there are no step inputs.
NoInputs ==
    /\ step_exc' = "none"
    /\ step_action' = 0
    /\ wrapped_result' = BadTuple(0)
    /\ agent_mutated' = FALSE

\* GymEnv.__init__ hands (env_spec, num_players) to BaseEnv.__init__, and
\* GymEnv.step reads self._turn and self._num_players.  The BaseEnv of
\* hive/envs/base.py takes no arguments and sets neither, so the initialiser
\* GymEnv is written against is taken from the turn counter's description:
\* an integer in [0, num_players) that starts at 0.
EnvInit ==
    /\ turn = 0
    /\ num_players \in 1..MaxPlayers

Init ==
    /\ EnvInit
    /\ pc = "start"
    /\ learning_buffer = "unset"
    /\ stack_size = 1
    /\ max_steps_per_episode = 0
    /\ training = FALSE
    /\ buf = <<>>
    /\ started = FALSE
    /\ transitions = <<>>
    /\ observation = <<>>
    /\ done = FALSE
    /\ steps = 0
    /\ episode_metrics = create_episode_metrics
    /\ episodes = 0
    /\ accepted = 0
    /\ history = <<>>
    /\ events = <<>>
    /\ step_exc = "none"
    /\ step_action = 0
    /\ wrapped_result = BadTuple(0)
    /\ agent_mutated = FALSE
    /\ last = [op |-> "init", raised |-> "none", observation |-> <<>>,
               stacked |-> <<>>, returned |-> <<>>, updated |-> <<>>,
               recorded |-> <<>>, reward_added |-> <<>>, trace |-> <<>>,
               turn_before |-> 0]

\* SingleAgentRunner.__init__(..., stack_size, max_steps_per_episode, learning_buffer)
SingleAgentRunner_init(lb, n, m, op) ==
    /\ learning_buffer' = lb
    /\ stack_size' = n
    /\ max_steps_per_episode' = m
    /\ buf' = TransitionInfo_reset.buf
    /\ started' = TransitionInfo_reset.started
    /\ pc' = IF valid_learning_buffer(lb) THEN "idle" ELSE "ctor_error"
    /\ NoInputs
    /\ last' = [NoStep(op) EXCEPT
                  !.raised = IF valid_learning_buffer(lb) THEN "none" ELSE "ValueError"]
    /\ UNCHANGED <<num_players, training, turn, transitions, observation, done,
                   steps, episode_metrics, episodes, accepted, history, events>>

\* A caller constructs the runner directly.
Construct ==
    /\ pc = "start"
    /\ \E lb \in LearningBuffers, n \in 1..MaxStack, m \in 0..MaxSteps :
          SingleAgentRunner_init(lb, n, m, "construct")

\* set_up_experiment(config): the imports under `if ... == "lofo"` make envs
\* and agent_lib local names of the function, so with any other value the
\* first use of envs raises UnboundLocalError before the runner is built.
set_up_experiment ==
    /\ pc = "start"
    /\ \E lb \in LearningBuffers, n \in 1..MaxStack, m \in 0..MaxSteps :
          IF lb = "lofo"
            THEN SingleAgentRunner_init(lb, n, m, "set_up_experiment")
            ELSE /\ pc' = "setup_error"
                 /\ NoInputs
                 /\ last' = [NoStep("set_up_experiment") EXCEPT
                               !.raised = "UnboundLocalError"]
                 /\ UNCHANGED <<learning_buffer, stack_size, max_steps_per_episode,
                                num_players, training, turn, buf, started,
                                transitions, observation, done, steps,
                                episode_metrics, episodes, accepted, history,
                                events>>

\* run_episode without the TransitionInfo.reset of l.114 and with the
\* metrics of the previous call
run_episode_prologue_keeps(b, m) ==
    LET s == start_agent(b)
    IN  [episode_metrics |-> m, done |-> FALSE, buf |-> s.buf,
         started |-> s.started, steps |-> 0,
         calls |-> <<"create_episode_metrics", "environment.reset",
                     "start_agent">>]

\* run_episode, up to the loop, given the buffer b and the metrics m the
\* previous call left: fresh metrics, done = False, the environment reset,
\* the buffers cleared, agent 0 started, steps = 0.
run_episode_prologue(b, m) ==
    LET cleared == TransitionInfo_reset
        s == start_agent(cleared.buf)
    IN  [episode_metrics |-> create_episode_metrics, done |-> FALSE,
         buf |-> s.buf, started |-> s.started, steps |-> 0,
         calls |-> <<"create_episode_metrics", "environment.reset",
                     "TransitionInfo.reset", "start_agent">>]

\* What the wrapped reset's second call may do: there is one only after a
\* TypeError of the first.
SecondOutcomes(first) == IF first = "TypeError" THEN ResetOutcomes ELSE {"ok"}

\* A call of run_episode, up to its loop.  The driver has set the training
\* mode.  When the environment's reset raises, run_episode is left there:
\* its metrics and done are assigned, its observation and steps are not.
run_episode_begin ==
    /\ pc \in {"idle", "returned"}
    /\ episodes < MaxEpisodes
    /\ \E t \in BOOLEAN, o \in Obs, first \in ResetOutcomes :
        \E second \in SecondOutcomes(first) :
          LET r == GymEnv_reset(first, second, <<o>>, turn)
              p == run_episode_prologue(buf, episode_metrics)
          IN /\ training' = t
             /\ episode_metrics' = p.episode_metrics
             /\ done' = p.done
             /\ turn' = r.self_turn
             /\ observation' = r.observation
             /\ steps' = 0
             /\ NoInputs
             /\ IF r.raised = "none"
                  THEN /\ buf' = p.buf
                       /\ started' = p.started
                       /\ transitions' = <<>>
                       /\ events' = p.calls
                       /\ pc' = "loop"
                  ELSE /\ UNCHANGED <<buf, started, transitions>>
                       /\ events' = SubSeq(p.calls, 1, 2)
                       /\ pc' = "raised"
             /\ last' = [NoStep("run_episode") EXCEPT
                           !.raised = r.raised,
                           !.observation = r.observation,
                           !.returned = IF r.raised = "none"
                                          THEN <<[observation |-> r.observation,
                                                  turn |-> r.turn]>>
                                          ELSE <<>>,
                           !.trace = r.trace]
    /\ episodes' = episodes + 1
    /\ history' = <<>>
    /\ UNCHANGED <<learning_buffer, stack_size, max_steps_per_episode,
                   num_players, accepted>>

\* run_episode's loop body with run_one_step's observation dropped:
\* `done, _ = self.run_one_step(observation, episode_metrics)`
StepTo_same_observation(r) ==
    /\ buf' = r.buf
    /\ turn' = r.turn
    /\ accepted' = r.accepted
    /\ transitions' = r.transitions
    /\ episode_metrics' = r.episode_metrics
    /\ last' = [r.last EXCEPT !.turn_before = turn]
    /\ events' = events \o r.last.trace
    /\ IF r.raised = "none"
         THEN /\ done' = r.done
              /\ observation' = observation
              /\ steps' = steps + 1
              /\ history' = Append(history,
                                   [observation |-> observation,
                                    reward |-> r.last.returned[1].reward,
                                    done |-> r.done,
                                    next_observation |-> r.next_observation])
              /\ pc' = "loop"
         ELSE /\ pc' = "raised"
              /\ UNCHANGED <<done, observation, steps, history>>

\* run_episode's loop body, `done, observation = self.run_one_step(...)` and
\* `steps += 1`: the runner's state after run_one_step left r.
StepTo(r) ==
    /\ buf' = r.buf
    /\ turn' = r.turn
    /\ accepted' = r.accepted
    /\ transitions' = r.transitions
    /\ episode_metrics' = r.episode_metrics
    /\ last' = [r.last EXCEPT !.turn_before = turn]
    /\ events' = events \o r.last.trace
    /\ IF r.raised = "none"
         THEN /\ done' = r.done
              /\ observation' = r.next_observation
              /\ steps' = steps + 1
              /\ history' = Append(history,
                                   [observation |-> observation,
                                    reward |-> r.last.returned[1].reward,
                                    done |-> r.done,
                                    next_observation |-> r.next_observation])
              /\ pc' = "loop"
         ELSE /\ pc' = "raised"
              /\ UNCHANGED <<done, observation, steps, history>>

\* One call of run_one_step with the given inputs.
StepWith(e, a, sr, m) ==
    \E r \in {run_one_step(learning_buffer,
                 [exc |-> e, action |-> a, step_result |-> sr, mut |-> m])} :
       StepTo(r)

\* One iteration of run_episode's while loop: act raises, or the wrapped step
\* raises, or update raises, or none of them does.
run_episode_step ==
    /\ pc = "loop"
    /\ loop_condition
    /\ \/ /\ step_exc' = "act"
          /\ step_action' = 0
          /\ wrapped_result' = BadTuple(0)
          /\ agent_mutated' = FALSE
          /\ StepWith("act", 0, BadTuple(0), "none")
       \/ /\ step_exc' = "step"
          /\ \E a \in Actions :
                /\ step_action' = a
                /\ wrapped_result' = BadTuple(0)
                /\ agent_mutated' = FALSE
                /\ StepWith("step", a, BadTuple(0), "none")
       \/ /\ training
          /\ step_exc' = "update"
          /\ \E a \in Actions :
                /\ step_action' = a
                /\ \E sr \in AcceptedResults :
                      /\ wrapped_result' = sr
                      /\ agent_mutated' = FALSE
                      /\ StepWith("update", a, sr, "none")
       \/ /\ step_exc' = "none"
          /\ \E a \in Actions :
                /\ step_action' = a
                /\ \E sr \in StepResults :
                      /\ wrapped_result' = sr
                      /\ \E m \in MutationsOf(training, sr) :
                            /\ agent_mutated' = (m # "none")
                            /\ StepWith("none", a, sr, m)
    /\ UNCHANGED <<learning_buffer, stack_size, max_steps_per_episode,
                   num_players, training, started, episodes>>

\* The loop condition fails: run_episode returns episode_metrics.
run_episode_return ==
    /\ pc = "loop"
    /\ ~loop_condition
    /\ pc' = "returned"
    /\ NoInputs
    /\ last' = NoStep("return")
    /\ UNCHANGED <<learning_buffer, stack_size, max_steps_per_episode,
                   num_players, training, turn, buf, started, transitions,
                   observation, done, steps, episode_metrics, episodes,
                   accepted, history, events>>

Next ==
    \/ Construct
    \/ set_up_experiment
    \/ run_episode_begin
    \/ run_episode_step
    \/ run_episode_return

Spec == Init /\ [][Next]_vars

\* run_episode is sequential code: while it is in its loop, the loop's next
\* iteration, or its return, happens.
FairSpec == Spec /\ WF_vars(run_episode_step) /\ WF_vars(run_episode_return)

\* ------------------------------------------------------------ claims
RECURSIVE SumRewards(_)
SumRewards(h) == IF h = <<>> THEN 0 ELSE h[1].reward + SumRewards(Tail(h))

\* The last handler was a step that reached record_info.
Recorded == last.op = "run_one_step" /\ last.recorded # <<>>

\* The last handler was a step that called agent.update.
Updated == last.op = "run_one_step" /\ last.updated # <<>>

\* The record a step hands on, from what the step was given and what act and
\* the environment returned.
RawRecord ==
    [observation |-> last.observation,
     reward |-> last.returned[1].reward,
     action |-> step_action,
     done |-> last.returned[1].done,
     info |-> last.returned[1].info]

\* A step can be taken now.
CanStep == pc = "loop" /\ loop_condition

\* C1: in every step, under both policies and in both modes, the record given
\* to record_info carries the raw observation the step was given, not the
\* stacked one; on the same inputs both policies give record_info the same record.
C1_RecordInfoRaw ==
    /\ Recorded =>
          /\ last.recorded[1].observation = last.observation
          /\ Len(last.recorded[1].observation) = 1
          /\ stack_size > 1 => last.recorded[1].observation # last.stacked
          /\ transitions = last.recorded
    /\ CanStep =>
          \A a \in Actions, sr \in AcceptedResults :
             LET inp == [exc |-> "none", action |-> a, step_result |-> sr,
                         mut |-> "none"]
             IN  run_one_step("fifo", inp).last.recorded
                    = run_one_step("lofo", inp).last.recorded

C1_Witness ==
    /\ Recorded /\ Updated
    /\ learning_buffer = "lofo" /\ stack_size = 2
    /\ last.updated[1].observation = last.stacked
    /\ last.recorded[1].observation = last.observation
    /\ last.stacked # last.observation

\* C2: the record given to update carries the raw observation under fifo and
\* the stacked observation of this step's get_stacked_state under lofo; its
\* reward, action and done are the agent's action and the environment's
\* reward and done.
C2_UpdateRecord ==
    Updated =>
       /\ training
       /\ learning_buffer = "fifo" => last.updated[1].observation = last.observation
       /\ learning_buffer = "lofo" =>
             /\ last.updated[1].observation = last.stacked
             /\ last.stacked = buf
             /\ Len(last.stacked) = stack_size
             /\ last.stacked[stack_size] = last.observation[1]
       /\ last.updated[1].reward = last.returned[1].reward
       /\ last.updated[1].action = step_action
       /\ last.updated[1].done = last.returned[1].done

C2_Witness ==
    /\ Updated /\ learning_buffer = "lofo" /\ stack_size = 2
    /\ last.updated[1].observation = <<1, 2>>
    /\ last.observation = <<2>>
    /\ last.updated[1].action = 1
    /\ last.updated[1].reward = -1

\* C3: run_episode terminates; it never performs more than
\* max_steps_per_episode steps, and when the environment never signals done it
\* returns after exactly max_steps_per_episode steps (none when that is 0).
C3_Terminates ==
    /\ [](steps <= max_steps_per_episode)
    /\ []((pc = "returned" /\ \A i \in DOMAIN history : ~history[i].done)
             => Len(history) = max_steps_per_episode)
    /\ (pc = "loop") ~> (pc \in {"returned", "raised"})

C3_Witness ==
    /\ pc = "returned" /\ ~done
    /\ max_steps_per_episode = MaxSteps
    /\ Len(history) = MaxSteps

\* C4: when the environment first returns done on step k <= max_steps_per_episode,
\* run_episode performs exactly k steps: it does not return earlier, and after
\* the step that returned done nothing is called and the metrics stay as they are.
C4_StopsAtDone ==
    /\ []((pc \in {"loop", "returned"} /\ done) =>
            /\ Len(history) = steps /\ steps >= 1
            /\ history[steps].done
            /\ \A i \in 1..(steps - 1) : ~history[i].done)
    /\ [](pc = "returned" => done \/ steps >= max_steps_per_episode)
    /\ [][(pc = "loop" /\ done) =>
            /\ pc' = "returned"
            /\ last'.trace = <<>>
            /\ UNCHANGED <<episode_metrics, steps, history, accepted,
                           transitions, buf, turn, observation>>]_vars

C4_Witness ==
    /\ pc = "returned" /\ done
    /\ steps = MaxSteps /\ max_steps_per_episode = MaxSteps
    /\ history[MaxSteps].done

\* C5: after k completed steps with rewards r1..rk the agent's reward is their
\* sum and the agent's episode_length and full_episode_length are both k.
C5_Metrics ==
    pc \in {"loop", "returned", "raised"} =>
       /\ episode_metrics.reward = SumRewards(history)
       /\ episode_metrics.episode_length = Len(history)
       /\ episode_metrics.full_episode_length = Len(history)
       /\ steps = Len(history)

C5_Witness ==
    /\ pc = "returned"
    /\ Len(history) = MaxSteps
    /\ history[1].reward = -1 /\ history[2].reward = 2
    /\ episode_metrics = [reward |-> 1, episode_length |-> MaxSteps,
                          full_episode_length |-> MaxSteps]

\* C6: GymEnv.step returns done = terminated or truncated for a 5-tuple and the
\* tuple's done for a 4-tuple; a step fed (obs, r, True, False, info) and a step
\* fed (obs, r, True, info) leave the same observation, reward, done, turn,
\* info, metrics and loop state.
C6_ArityNormalized ==
    /\ (last.op = "run_one_step" /\ last.returned # <<>>) =>
          /\ wrapped_result.arity = 5 =>
                last.returned[1].done
                   = (wrapped_result.terminated \/ wrapped_result.truncated)
          /\ wrapped_result.arity = 4 =>
                last.returned[1].done = wrapped_result.done
          /\ last.returned[1].observation = wrapped_result.observation
          /\ last.returned[1].reward = wrapped_result.reward
          /\ last.returned[1].info = wrapped_result.info
    /\ CanStep =>
          \A a \in Actions, x \in Outcomes, i \in Infos :
             run_one_step(learning_buffer,
                 [exc |-> "none", action |-> a, mut |-> "none",
                  step_result |-> Tuple5(<<x[1]>>, x[2], TRUE, FALSE, i)])
             = run_one_step(learning_buffer,
                 [exc |-> "none", action |-> a, mut |-> "none",
                  step_result |-> Tuple4(<<x[1]>>, x[2], TRUE, i)])

C6_Witness ==
    /\ last.op = "run_one_step" /\ last.returned # <<>>
    /\ wrapped_result = Tuple5(<<2>>, 2, TRUE, FALSE, <<7>>)
    /\ done /\ steps = 2 /\ max_steps_per_episode = 2
    /\ episode_metrics.reward = 4

\* C7: a wrapped step result of length other than 4 or 5 makes GymEnv.step
\* raise; the turn counter stays as it was, and the step makes no update, no
\* record_info and no change to the metrics.
C7_BadArityRaises ==
    /\ []((last.op = "run_one_step" /\ wrapped_result.arity \in Arities \ {4, 5})
            => last.raised = "arity" /\ pc = "raised" /\ turn = last.turn_before)
    /\ [][(last'.op = "run_one_step" /\ last'.raised = "arity") =>
            /\ pc' = "raised"
            /\ turn' = turn
            /\ last'.returned = <<>> /\ last'.updated = <<>> /\ last'.recorded = <<>>
            /\ UNCHANGED <<episode_metrics, transitions, accepted, history, steps>>]_vars

C7_Witness ==
    /\ pc = "raised" /\ last.raised = "arity"
    /\ wrapped_result.arity = 6
    /\ num_players = 2 /\ turn = 1 /\ last.turn_before = 1
    /\ steps = 1 /\ training

C9_ConstructorRejects ==
    /\ last.op = "construct" =>
          /\ learning_buffer \in {"fifo", "lofo"} => pc = "idle" /\ last.raised = "none"
          /\ learning_buffer \notin {"fifo", "lofo"} =>
                pc = "ctor_error" /\ last.raised = "ValueError"
    /\ pc = "ctor_error" =>
          /\ learning_buffer \notin {"fifo", "lofo"}
          /\ episodes = 0 /\ accepted = 0 /\ steps = 0
          /\ transitions = <<>> /\ buf = <<>> /\ history = <<>>
    /\ pc \in {"idle", "loop", "returned", "raised"} =>
          learning_buffer \in {"fifo", "lofo"}

C9_Witness ==
    /\ pc = "ctor_error" /\ learning_buffer = "None"
    /\ last.op = "construct" /\ last.raised = "ValueError"

\* C10: whatever the agent does in update to the record it was given, the
\* record given to record_info and the reward added to the metrics are what
\* they are when the agent leaves its record alone.
C10_UpdateGetsDeepCopy ==
    /\ (Recorded /\ agent_mutated) =>
          /\ last.recorded[1] = RawRecord
          /\ last.reward_added = <<last.returned[1].reward>>
          /\ transitions = <<RawRecord>>
    /\ (CanStep /\ training) =>
          \A a \in Actions, sr \in AcceptedResults :
             LET inp == [exc |-> "none", action |-> a, step_result |-> sr,
                         mut |-> "none"]
                 untouched == run_one_step(learning_buffer, inp)
             IN  \A m \in Mutations \ {"none"} :
                   LET touched == run_one_step(learning_buffer,
                                               [inp EXCEPT !.mut = m])
                   IN  /\ touched.last.recorded = untouched.last.recorded
                       /\ touched.last.reward_added = untouched.last.reward_added
                       /\ touched.episode_metrics = untouched.episode_metrics
                       /\ touched.transitions = untouched.transitions

C10_Witness ==
    /\ Recorded /\ agent_mutated
    /\ learning_buffer = "fifo"
    /\ last.recorded[1].observation = <<2>>
    /\ last.recorded[1].info = <<7>>
    /\ last.reward_added = <<2>>

\* The last handler was a call of run_episode, up to its loop.
Began == last.op = "run_episode"

Given == [i \in 1..Len(history) |-> history[i].observation[1]]

\* The observation environment.reset returned to this episode.
InitialObservation ==
    IF history = <<>> THEN observation[1] ELSE history[1].observation[1]

\* The buffer the stack invariant describes after k pushes: the initial
\* observation stack_size times, then the pushed observations, cut to the
\* last stack_size entries.
StackAfter(k) ==
    SubSeq([i \in 1..stack_size |-> InitialObservation] \o Given,
           k + 1, k + stack_size)

\* C12 as stated: once the agent is started its buffer has length stack_size;
\* right after start it holds the initial observation stack_size times; after
\* k pushes it holds the initial observation stack_size - k times and then
\* the k pushed observations; with stack_size 1 the stacked observation given
\* to act is the latest observation.
C12_StackInvariant ==
    /\ (started /\ pc \in {"loop", "returned", "raised"}) => Len(buf) = stack_size
    /\ (Began /\ pc = "loop") =>
          buf = [i \in 1..stack_size |-> last.observation[1]]
    /\ (last.op = "run_one_step" /\ pc = "loop") =>
          /\ buf = StackAfter(Len(history))
          /\ stack_size = 1 => last.stacked = last.observation

\* How often the call e is in the log s.
Count(s, e) == Cardinality({i \in DOMAIN s : s[i] = e})

\* This call of run_episode got past its environment.reset.
InEpisode == pc \in {"loop", "returned", "raised"} /\ Len(events) >= 4

\* The calls of a step in the log s follow each other as run_one_step makes
\* them: each call's predecessor is the call before it in a step, and a step
\* starts right after start_agent or after the previous step's metrics update.
InStepOrder(s) ==
    \A i \in DOMAIN s :
       /\ s[i] = "get_stacked_state" =>
             i > 1 /\ s[i - 1] \in {"start_agent", "metrics"}
       /\ s[i] = "act" => i > 1 /\ s[i - 1] = "get_stacked_state"
       /\ s[i] = "step" => i > 1 /\ s[i - 1] = "act"
       /\ s[i] = "update" => i > 1 /\ s[i - 1] = "step"
       /\ s[i] = "record_info" =>
             i > 1 /\ s[i - 1] = (IF training THEN "update" ELSE "step")
       /\ s[i] = "metrics" => i > 1 /\ s[i - 1] = "record_info"

\* C13: every step that completes calls record_info exactly once, after its
\* update call when there is one, under both policies; the calls of a step
\* are, in this order, get_stacked_state, act, environment.step, update,
\* record_info, the metrics update; no call of the next step comes before the
\* metrics update of this one.
C13_StepOrder ==
    /\ Recorded =>
          /\ Count(last.trace, "record_info") = 1
          /\ last.trace \in
                { <<"get_stacked_state", "act", "step", "update", "record_info",
                    "metrics">>,
                  <<"get_stacked_state", "act", "step", "record_info",
                    "metrics">> }
    /\ InEpisode =>
          /\ InStepOrder(events)
          /\ Count(events, "record_info") = Len(history)
          /\ Count(events, "metrics") = Len(history)
          /\ Count(events, "get_stacked_state") \in {Len(history), Len(history) + 1}
          /\ pc # "raised" => Count(events, "get_stacked_state") = Len(history)

C13_Witness ==
    /\ pc = "returned" /\ training /\ learning_buffer = "lofo"
    /\ Len(history) = 2
    /\ SubSeq(events, 5, 16) =
          <<"get_stacked_state", "act", "step", "update", "record_info", "metrics",
            "get_stacked_state", "act", "step", "update", "record_info", "metrics">>

\* C14: a call of run_episode whose environment.reset returns clears the
\* observation buffers once and starts agent 0 once, in the order
\* environment.reset, TransitionInfo.reset, start_agent, all before the first
\* get_stacked_state, act or step; its metrics are fresh; no buffered
\* observation, recorded transition or metric value of the previous call is
\* there when its loop begins, and its first stacked observation is made of
\* its own first observation alone.
C14_EpisodePrologue ==
    /\ InEpisode =>
          /\ SubSeq(events, 1, 4) =
                <<"create_episode_metrics", "environment.reset",
                  "TransitionInfo.reset", "start_agent">>
          /\ Count(events, "environment.reset") = 1
          /\ Count(events, "TransitionInfo.reset") = 1
          /\ Count(events, "start_agent") = 1
          /\ \A i \in DOMAIN events :
                events[i] \in {"get_stacked_state", "act", "step"} => i > 4
    /\ (Began /\ pc = "loop") =>
          /\ episode_metrics = [reward |-> 0, episode_length |-> 0,
                                full_episode_length |-> 0]
          /\ buf = <<>> /\ started
          /\ transitions = <<>>
          /\ steps = 0 /\ ~done
    /\ (last.op = "run_one_step" /\ last.trace # <<>> /\ Len(events) <= 10) =>
          last.stacked = [i \in 1..stack_size |-> last.observation[1]]

C14_Witness ==
    /\ Began /\ pc = "loop"
    /\ episodes = 2 /\ accepted = 2 /\ stack_size = 2
    /\ episode_metrics.episode_length = 0 /\ buf = <<>>
    /\ events = <<"create_episode_metrics", "environment.reset",
                  "TransitionInfo.reset", "start_agent">>

\* C15: the first step of an episode is given the observation
\* environment.reset returned; every later step is given the next_observation
\* the environment returned from the step before; what a step is given is what
\* it stacks last and what it records as its raw observation.
C15_ObservationChain ==
    /\ [](((Began /\ pc = "loop") => observation = last.returned[1].observation)
          /\ ((last.op = "run_one_step" /\ pc = "loop") =>
                 /\ observation = wrapped_result.observation
                 /\ observation = history[Len(history)].next_observation
                 /\ last.observation = history[Len(history)].observation)
          /\ (\A i \in 2..Len(history) :
                 history[i].observation = history[i - 1].next_observation)
          /\ (last.op = "run_one_step" =>
                 last.stacked[stack_size] = last.observation[1])
          /\ (Recorded => last.recorded[1].observation = last.observation))
    /\ [][last'.op = "run_one_step" =>
            /\ last'.observation = observation
            /\ Began => last'.observation = last.returned[1].observation
            /\ last.op = "run_one_step" =>
                  last'.observation = last.returned[1].observation]_vars

C15_Witness ==
    /\ pc = "loop" /\ Recorded /\ Len(history) = 2
    /\ history[1].observation = <<1>> /\ history[1].next_observation = <<2>>
    /\ history[2].observation = <<2>> /\ history[2].next_observation = <<1>>
    /\ last.recorded[1].observation = <<2>>

\* C16: a step in which act, environment.step or update raises adds nothing to
\* the episode metrics, which keep the values the last completed step left;
\* record_info is not called for it; run_episode makes no further step.
C16_FailedStepContributesNothing ==
    /\ [][((step_exc' # "none" \/ wrapped_result'.arity \notin {4, 5})
           /\ last'.op = "run_one_step") =>
            /\ pc' = "raised"
            /\ episode_metrics' = episode_metrics
            /\ transitions' = transitions
            /\ steps' = steps /\ history' = history
            /\ last'.recorded = <<>> /\ last'.reward_added = <<>>
            /\ Count(last'.trace, "record_info") = 0
            /\ Count(last'.trace, "metrics") = 0]_vars
    /\ []((pc = "raised" /\ last.op = "run_one_step") =>
            /\ episode_metrics.reward = SumRewards(history)
            /\ episode_metrics.episode_length = Len(history)
            /\ episode_metrics.full_episode_length = Len(history)
            /\ Count(events, "record_info") = Len(history))
    /\ [][pc = "raised" => UNCHANGED <<pc, steps, history, episode_metrics,
                                       events, accepted>>]_vars

C16_Witness ==
    /\ pc = "raised" /\ step_exc = "update" /\ last.raised = "update"
    /\ Len(history) = 1 /\ history[1].reward = 2
    /\ episode_metrics = [reward |-> 2, episode_length |-> 1,
                          full_episode_length |-> 1]
    /\ wrapped_result.reward = -1
    /\ last.updated # <<>> /\ last.recorded = <<>>

C18_UpdateOnlyInTraining ==
    /\ [](last.op = "run_one_step" =>
            /\ Count(last.trace, "update") <= 1
            /\ Count(last.trace, "update") = Len(last.updated)
            /\ Updated => training
            /\ ~training => Count(events, "update") = 0)
    /\ [](Recorded =>
            /\ Count(last.trace, "record_info") = 1
            /\ training => Updated
            /\ last.recorded[1] = RawRecord
            /\ transitions = <<RawRecord>>
            /\ last.reward_added = <<wrapped_result.reward>>)
    /\ [][(last'.op = "run_one_step" /\ last'.recorded # <<>>) =>
            /\ episode_metrics'.reward
                  = episode_metrics.reward + wrapped_result'.reward
            /\ episode_metrics'.episode_length
                  = episode_metrics.episode_length + 1
            /\ episode_metrics'.full_episode_length
                  = episode_metrics.full_episode_length + 1]_vars

C18_Witness ==
    /\ Recorded /\ ~training /\ learning_buffer = "lofo" /\ stack_size = 2
    /\ last.updated = <<>>
    /\ last.stacked = <<1, 2>>
    /\ last.recorded[1].observation = <<2>>
    /\ steps = 2 /\ episode_metrics.episode_length = 2

====
